---- MODULE Spec2Model ----
(***************************************************************************)
(* Model of the extension probes of postgres_exporter's collector package. *)
(*                                                                         *)
(* Two implementations of the "extension" probe are in the source:         *)
(*   PGExtensionCollector  (collector/pg_extension.go): discovers the      *)
(*     databases, filters the excluded ones, selects targets under a scan  *)
(*     budget (selectDatabases) and emits one sample per database and row. *)
(*   PGExtensionsCollector (unnamed/part_001): discovers and filters the   *)
(*     databases, aggregates extname -> extversion in a map over all of    *)
(*     them and emits the map sorted by extname.                           *)
(* The variable `collector` says which of the two a behaviour runs.        *)
(***************************************************************************)
EXTENDS Integers, Sequences, FiniteSets, TLC

VARIABLES
    collector,          \* which Update runs: "PGExtensionCollector" or "PGExtensionsCollector"
    excludedDatabases,  \* c.excludedDatabases (membership is all the code uses)
    includeDatabases,   \* c.includeDatabases, the configured priority list
    maxDatabases,       \* c.maxDatabases, the scan budget
    pc,                 \* position in Update (or in the call of selectDatabases)
    databases,          \* result of the discovery query
    eligibleDatabases,  \* databases left after the exclude filter
    targetDatabases,    \* databases the per-database loop ranges over
    idx,                \* 1-based position of the loop in targetDatabases
    openConns,          \* names of the databases whose fan-out connection is open
    returned,           \* extnames the open result set has returned so far
    extensions,         \* the map extname -> extversion of PGExtensionsCollector
    ch,                 \* the samples sent to the sink so far, in order
    err,                \* Update's return value: "unset" while running, "nil", "error"
    seen                \* history: per extname the <<datname, version>> stored, in scan order

VARIABLES
    instances,          \* the Instances, by id: the fields dsn, db, version, closeDB, statementTimeout
    conns,              \* the connections (*sql.DB) opened so far: open or closed, who opened
                        \* it, and the statements the server has received on it
    lastCall,           \* the last call made on an Instance: method, receiver, statements
                        \* issued, connection closed and error returned
    versionRows         \* what SELECT version() and SHOW server_version return, where
                        \* queryVersion is tried on every string

VARIABLES
    scrapePc,           \* position of the orchestrator in one scrape
    enabledProbes,      \* the enabled probes, in registration order
    probeIdx,           \* 1-based position of the orchestrator in enabledProbes
    outcomes,           \* per invoked probe: its name, the error of Update and the success signal
    cancelled,          \* whether the scrape's context has been cancelled
    lateCalls           \* the database calls that reached the server after the cancellation

VARIABLES
    inputDSN,           \* the descriptor handed to modifyDSNDatabase, a string of bytes
    inputParts,         \* history: the parts inputDSN was written from
    newDBName,          \* the database name handed to modifyDSNDatabase
    result              \* what modifyDSNDatabase returned: descriptor and error

VARIABLES
    superuserRows,      \* the result set of the unexpected-superusers query
    count               \* the local count of PGUnexpectedSuperusersCollector.Update

\* the state of one Update of an extension probe, the sink apart
updateVars == <<collector, excludedDatabases, includeDatabases, maxDatabases, pc,
                databases, eligibleDatabases, targetDatabases, idx, openConns,
                returned, extensions, err, seen>>

instanceVars == <<instances, conns, lastCall, versionRows>>

scrapeVars == <<scrapePc, enabledProbes, probeIdx, outcomes, cancelled, lateCalls>>

rewriteVars == <<inputDSN, inputParts, newDBName, result>>

superuserVars == <<superuserRows, count>>

vars == <<updateVars, ch, instanceVars, scrapeVars, rewriteVars, superuserVars>>

----------------------------------------------------------------------------
(* Bounds *)

\* database names are 1..NumDB in the checks of selectDatabases
NumDB == 3
\* longest configured priority list in the checks of selectDatabases
MaxInclude == 2
\* largest scan budget tried (budgets range over -1..MaxScan)
MaxScan == 3
\* the server of a modelled scrape has the databases 1..MaxDiscovered
MaxDiscovered == 2

DBNames == 1..NumDB
ServerDBs == 1..MaxDiscovered

\* extension names are byte strings: "ab" and "b"
ExtNames == {<<97, 98>>, <<98>>}
\* the empty string, Go's zero value of string
EmptyString == <<>>
Versions == {"1.0", "1.1"}
\* a NULL column value
NULL == "NULL"

----------------------------------------------------------------------------
(* Helpers *)

Range(s) == {s[i] : i \in 1..Len(s)}

Min(a, b) == IF a < b THEN a ELSE b

Max(a, b) == IF a > b THEN a ELSE b

\* all sequences over S of length at most n
SeqsUpTo(S, n) == UNION {[1..k -> S] : k \in 0..n}

\* all sequences over S without repetition
DistinctSeqs(S) ==
    {s \in SeqsUpTo(S, Cardinality(S)) : \A i, j \in 1..Len(s) : i # j => s[i] # s[j]}

\* the ascending sequence of a set of integers (ORDER BY datname)
RECURSIVE Ascending(_)
Ascending(S) ==
    IF S = {} THEN <<>>
    ELSE LET m == CHOOSE x \in S : \A y \in S : x <= y
         IN <<m>> \o Ascending(S \ {m})

----------------------------------------------------------------------------
(* selectDatabases *)

\* mutant: the priority names are taken without looking them up in eligibleSet
priorityDBsOf_noEligibleCheck(include, eligibleSet) == include

\* mutant: a priority name found in eligibleSet is not deleted from it
priorityDBsOf_noDelete(include, eligibleSet) ==
    SelectSeq(include, LAMBDA db : db \in eligibleSet)

\* lines 199-204: the priority names found in eligibleSet, each deleted from
\* the set once taken
RECURSIVE priorityDBsOf(_, _)
priorityDBsOf(include, eligibleSet) ==
    IF include = <<>> THEN <<>>
    ELSE IF Head(include) \in eligibleSet
         THEN <<Head(include)>> \o priorityDBsOf(Tail(include), eligibleSet \ {Head(include)})
         ELSE priorityDBsOf(Tail(include), eligibleSet)

\* lines 207-211: the eligible names still in eligibleSet, in eligible's order
otherDBsOf(eligible, priorityDBs) ==
    SelectSeq(eligible, LAMBDA db : db \notin Range(priorityDBs))

\* the random draws of one rand.Shuffle(n, swap): for i = n-1 down to 1 a j in 0..i
ShuffleChoices(n) ==
    {js \in [1..(n - 1) -> 0..(n - 1)] : \A i \in 1..(n - 1) : js[i] <= i}

\* swap of the 0-based positions i and j of s
Swap(s, i, j) ==
    [k \in 1..Len(s) |-> IF k = i + 1 THEN s[j + 1] ELSE IF k = j + 1 THEN s[i + 1] ELSE s[k]]

\* math/rand Shuffle: Fisher-Yates from position i down to 1 with the draws js
RECURSIVE ShuffleFrom(_, _, _)
ShuffleFrom(s, js, i) ==
    IF i < 1 THEN s ELSE ShuffleFrom(Swap(s, i, js[i]), js, i - 1)

\* mutant: no swap is made, the names stay in discovery order
Shuffle_noSwap(s, js) == s

Shuffle(s, js) == ShuffleFrom(s, js, Len(s) - 1)

\* mutant: the whole result, priority names included, is cut to the budget
selectDatabases_truncate(eligible, include, max, js) ==
    IF max <= 0 THEN eligible
    ELSE LET priorityDBs == priorityDBsOf(include, Range(eligible))
             otherDBs == Shuffle(otherDBsOf(eligible, priorityDBs), js)
             all == priorityDBs \o otherDBs
         IN SubSeq(all, 1, Min(max, Len(all)))

\* mutant: the priority names are collected while ranging over eligible, so they
\* come in discovery order instead of configured order
selectDatabases_eligibleOrder(eligible, include, max, js) ==
    IF max <= 0 THEN eligible
    ELSE LET priorityDBs == SelectSeq(eligible, LAMBDA db : db \in Range(include))
             otherDBs == Shuffle(otherDBsOf(eligible, priorityDBs), js)
             remaining == max - Len(priorityDBs)
         IN IF remaining > 0 /\ Len(otherDBs) > 0
            THEN priorityDBs \o SubSeq(otherDBs, 1, Min(remaining, Len(otherDBs)))
            ELSE priorityDBs

\* mutant: remaining is the whole budget, the priority names are not subtracted
selectDatabases_budgetIgnoresPriority(eligible, include, max, js) ==
    IF max <= 0 THEN eligible
    ELSE LET priorityDBs == priorityDBsOf(include, Range(eligible))
             otherDBs == Shuffle(otherDBsOf(eligible, priorityDBs), js)
             remaining == max
         IN IF remaining > 0 /\ Len(otherDBs) > 0
            THEN priorityDBs \o SubSeq(otherDBs, 1, Min(remaining, Len(otherDBs)))
            ELSE priorityDBs

\* mutant: only a negative budget means "no limit" (max < 0 for max <= 0)
selectDatabases_zeroIsLimit(eligible, include, max, js) ==
    IF max < 0 THEN eligible
    ELSE LET priorityDBs == priorityDBsOf(include, Range(eligible))
             otherDBs == Shuffle(otherDBsOf(eligible, priorityDBs), js)
             remaining == max - Len(priorityDBs)
         IN IF remaining > 0 /\ Len(otherDBs) > 0
            THEN priorityDBs \o SubSeq(otherDBs, 1, Min(remaining, Len(otherDBs)))
            ELSE priorityDBs

\* lines 183-231
selectDatabases(eligible, include, max, js) ==
    IF max <= 0 THEN eligible
    ELSE LET priorityDBs == priorityDBsOf(include, Range(eligible))
             otherDBs == Shuffle(otherDBsOf(eligible, priorityDBs), js)
             remaining == max - Len(priorityDBs)
         IN IF remaining > 0 /\ Len(otherDBs) > 0
            THEN priorityDBs \o SubSeq(otherDBs, 1, Min(remaining, Len(otherDBs)))
            ELSE priorityDBs

\* the number of draws a call of selectDatabases makes on `eligible`
NumOthers(eligible, include) ==
    Len(otherDBsOf(eligible, priorityDBsOf(include, Range(eligible))))

\* no call has been made on an Instance yet
NoCall == [op |-> "none", inst |-> 0, stmts |-> <<>>, closed |-> 0, err |-> "nil"]

\* no Instance exists: the state of the Instance variables where an Update is
\* modelled alone
NoInstances ==
    /\ instances = <<>>
    /\ conns = <<>>
    /\ lastCall = NoCall
    /\ versionRows = <<>>

\* no scrape is running: the state of the orchestrator's variables where it is
\* not modelled
NoScrape ==
    /\ scrapePc = "idle"
    /\ enabledProbes = <<>>
    /\ probeIdx = 0
    /\ outcomes = <<>>
    /\ cancelled = FALSE
    /\ lateCalls = <<>>

\* modifyDSNDatabase has not been called: the state of its variables where it
\* is not modelled
NoRewrite ==
    /\ inputDSN = <<>>
    /\ inputParts = <<>>
    /\ newDBName = <<>>
    /\ result = [dsn |-> <<>>, err |-> "unset"]

\* the unexpected-superusers probe is not running: the state of its variables
\* where it is not modelled
NoSuperusers ==
    /\ superuserRows = <<>>
    /\ count = 0

----------------------------------------------------------------------------
(* Specification SpecSelect: selectDatabases applied to bounded inputs *)

InitSelect ==
    /\ collector = "PGExtensionCollector"
    /\ excludedDatabases = {}
    /\ includeDatabases \in SeqsUpTo(DBNames, MaxInclude)
    /\ maxDatabases \in -1..MaxScan
    /\ pc = "call"
    /\ databases = <<>>
    /\ eligibleDatabases \in DistinctSeqs(DBNames)
    /\ targetDatabases = <<>>
    /\ idx = 0
    /\ openConns = {}
    /\ returned = {}
    /\ extensions = [n \in {} |-> ""]
    /\ ch = <<>>
    /\ err = "unset"
    /\ seen = [n \in ExtNames |-> <<>>]
    /\ NoInstances
    /\ NoScrape
    /\ NoRewrite
    /\ NoSuperusers

CallSelectDatabases ==
    /\ pc = "call"
    /\ \E js \in ShuffleChoices(NumOthers(eligibleDatabases, includeDatabases)) :
          targetDatabases' = selectDatabases(eligibleDatabases, includeDatabases, maxDatabases, js)
    /\ pc' = "ret"
    /\ UNCHANGED <<instanceVars, scrapeVars, rewriteVars, superuserVars>>
    /\ UNCHANGED <<collector, excludedDatabases, includeDatabases, maxDatabases, databases,
                   eligibleDatabases, idx, openConns, returned, extensions, ch, err, seen>>

NextSelect == CallSelectDatabases

SpecSelect == InitSelect /\ [][NextSelect]_vars

----------------------------------------------------------------------------
(* Strings, the map and the samples of the two Update methods *)

\* a < b for byte strings, as Go compares strings
RECURSIVE StrLess(_, _)
StrLess(a, b) ==
    IF a = <<>> THEN b # <<>>
    ELSE IF b = <<>> THEN FALSE
    ELSE IF Head(a) # Head(b) THEN Head(a) < Head(b)
    ELSE StrLess(Tail(a), Tail(b))

\* insertion of x into the ascending sequence s
RECURSIVE InsertSorted(_, _)
InsertSorted(x, s) ==
    IF s = <<>> THEN <<x>>
    ELSE IF StrLess(Head(s), x) THEN <<Head(s)>> \o InsertSorted(x, Tail(s))
    ELSE <<x>> \o s

\* mutant: the names are left in the order the map iteration produced them
SortStrings_noSort(s) == s

\* sort.Strings
RECURSIVE SortStrings(_)
SortStrings(s) ==
    IF s = <<>> THEN <<>> ELSE InsertSorted(Head(s), SortStrings(Tail(s)))

\* mutant: make([]string, len(extensions)) for make([]string, 0, len(extensions)):
\* the slice starts with len(extensions) empty strings
extNamesOf_lenForCap(keys) == [i \in 1..Len(keys) |-> EmptyString] \o keys

\* lines 142-145: the slice of the map's keys, in the order the iteration gave them
extNamesOf(keys) == keys

\* the orders in which ranging over the map m can produce its keys
KeyOrders(m) == {s \in DistinctSeqs(DOMAIN m) : Range(s) = DOMAIN m}

\* the empty map
MapEmpty == [n \in {} |-> ""]

\* mutant: an extname already in the map keeps its first version
MapAssign_firstWins(m, k, v) ==
    IF k \in DOMAIN m THEN m ELSE [x \in DOMAIN m \cup {k} |-> IF x = k THEN v ELSE m[x]]

\* line 131: extensions[k] = v
MapAssign(m, k, v) == [x \in DOMAIN m \cup {k} |-> IF x = k THEN v ELSE m[x]]

\* extensions[k]; a missing key reads as the zero value ""
MapGet(m, k) == IF k \in DOMAIN m THEN m[k] ELSE ""

\* lines 127-130: a NULL extversion is stored as ""
VersionString(v) == IF v = NULL THEN "" ELSE v

Sample(metric, datname, extname, extversion, value) ==
    [metric |-> metric, datname |-> datname, extname |-> extname,
     extversion |-> extversion, value |-> value]

\* pg_extension_databases_discovered
DiscoveredSample(n) == Sample("databases_discovered", 0, EmptyString, "", n)

\* mutant: the scanned count is sent under the descriptor of the discovered count
ScannedSample_discoveredDesc(n) == Sample("databases_discovered", 0, EmptyString, "", n)

\* pg_extension_databases_scanned
ScannedSample(n) == Sample("databases_scanned", 0, EmptyString, "", n)

\* pg_extension_info{datname, extname, extversion} 1
InfoSample(datname, extname, extversion) == Sample("info", datname, extname, extversion, 1)

\* pg_extension_installed{extname, extversion} 1
InstalledSample(extname, extversion) == Sample("installed", 0, extname, extversion, 1)

\* lines 148-154: one sample per entry of extNames, in its order
InstalledSamples(extNames, m) ==
    [i \in 1..Len(extNames) |-> InstalledSample(extNames[i], MapGet(m, extNames[i]))]

Fanout == "PGExtensionCollector"
Dedup == "PGExtensionsCollector"

\* the exclude filter with its test left out: every discovered database is kept
withoutExcluded_keepAll(dbs, excluded) == dbs

\* the exclude filter of both collectors: the databases whose name is not in
\* excludedDatabases, in the order discovered
withoutExcluded(dbs, excluded) == SelectSeq(dbs, LAMBDA d : d \notin excluded)

\* a close that releases nothing
dbConnClose_leak(open, db) == open

\* db.Close() / dbConn.Close() of a fan-out connection: it is no longer open
dbConnClose(open, db) == open \ {db}

----------------------------------------------------------------------------
(* Specification Spec: one invocation of Update of either collector *)

Init ==
    /\ collector \in {Fanout, Dedup}
    /\ excludedDatabases \in SUBSET ServerDBs
    /\ includeDatabases \in (IF collector = Fanout THEN SeqsUpTo(ServerDBs, 1) ELSE {<<>>})
    /\ maxDatabases \in (IF collector = Fanout THEN 0..MaxDiscovered ELSE {0})
    /\ pc = "discover"
    /\ databases = <<>>
    /\ eligibleDatabases = <<>>
    /\ targetDatabases = <<>>
    /\ idx = 0
    /\ openConns = {}
    /\ returned = {}
    /\ extensions = MapEmpty
    /\ ch = <<>>
    /\ err = "unset"
    /\ seen = [n \in ExtNames |-> <<>>]
    /\ NoInstances
    /\ NoScrape
    /\ NoRewrite
    /\ NoSuperusers

\* the database the loop is at
dbName == targetDatabases[idx]

\* `continue` / end of one iteration: the loop moves to the next database; after
\* the last one PGExtensionCollector returns nil and PGExtensionsCollector goes
\* on to emit the map
NextDatabase ==
    /\ idx' = idx + 1
    /\ returned' = {}
    /\ IF idx + 1 <= Len(targetDatabases)
       THEN pc' = "connect" /\ err' = err
       ELSE IF collector = Fanout
            THEN pc' = "done" /\ err' = "nil"
            ELSE pc' = "emit" /\ err' = err

(* PGExtensionCollector *)

\* getDatabases and Update lines 126-130
GetDatabases ==
    /\ collector = Fanout
    /\ pc = "discover"
    /\ \/ /\ pc' = "done"
          /\ err' = "error"
          /\ UNCHANGED databases
       \/ /\ databases' \in DistinctSeqs(ServerDBs)
          /\ pc' = "filter"
          /\ UNCHANGED err
    /\ UNCHANGED <<instanceVars, scrapeVars, rewriteVars, superuserVars>>
    /\ UNCHANGED <<collector, excludedDatabases, includeDatabases, maxDatabases,
                   eligibleDatabases, targetDatabases, idx, openConns, returned,
                   extensions, ch, seen>>

\* Update lines 132-157
FilterExcluded ==
    /\ collector = Fanout
    /\ pc = "filter"
    /\ LET eligible == withoutExcluded(databases, excludedDatabases)
       IN /\ eligibleDatabases' = eligible
          /\ IF Len(eligible) = 0
             THEN /\ ch' = ch \o <<DiscoveredSample(0), ScannedSample(0)>>
                  /\ pc' = "done"
                  /\ err' = "nil"
             ELSE /\ ch' = Append(ch, DiscoveredSample(Len(eligible)))
                  /\ pc' = "select"
                  /\ err' = err
    /\ UNCHANGED <<instanceVars, scrapeVars, rewriteVars, superuserVars>>
    /\ UNCHANGED <<collector, excludedDatabases, includeDatabases, maxDatabases, databases,
                   targetDatabases, idx, openConns, returned, extensions, seen>>

\* Update lines 159-167
SelectTargets ==
    /\ collector = Fanout
    /\ pc = "select"
    /\ \E js \in ShuffleChoices(NumOthers(eligibleDatabases, includeDatabases)) :
          LET targets == selectDatabases(eligibleDatabases, includeDatabases, maxDatabases, js)
          IN /\ targetDatabases' = targets
             /\ ch' = Append(ch, ScannedSample(Len(targets)))
             /\ idx' = 1
             /\ IF Len(targets) >= 1
                THEN pc' = "connect" /\ err' = err
                ELSE pc' = "done" /\ err' = "nil"
    /\ UNCHANGED <<instanceVars, scrapeVars, rewriteVars, superuserVars>>
    /\ UNCHANGED <<collector, excludedDatabases, includeDatabases, maxDatabases, databases,
                   eligibleDatabases, openConns, returned, extensions, seen>>

\* collectExtensionsForDatabase lines 260-265, and Update lines 171-176 on its error
ConnectToDatabase ==
    /\ collector = Fanout
    /\ pc = "connect"
    /\ \/ /\ openConns' = openConns \cup {dbName}
          /\ pc' = "query"
          /\ UNCHANGED <<idx, returned, err>>
       \/ /\ NextDatabase
          /\ UNCHANGED openConns
    /\ UNCHANGED <<instanceVars, scrapeVars, rewriteVars, superuserVars>>
    /\ UNCHANGED <<collector, excludedDatabases, includeDatabases, maxDatabases, databases,
                   eligibleDatabases, targetDatabases, extensions, ch, seen>>

\* collectExtensionsForDatabase lines 267-272
QueryExtensions ==
    /\ collector = Fanout
    /\ pc = "query"
    /\ \/ /\ pc' = "rows"
          /\ returned' = {}
          /\ UNCHANGED <<idx, openConns, err>>
       \/ /\ openConns' = dbConnClose(openConns, dbName)
          /\ NextDatabase
    /\ UNCHANGED <<instanceVars, scrapeVars, rewriteVars, superuserVars>>
    /\ UNCHANGED <<collector, excludedDatabases, includeDatabases, maxDatabases, databases,
                   eligibleDatabases, targetDatabases, extensions, ch, seen>>

\* collectExtensionsForDatabase lines 274-288: one turn of the rows loop, or its end
ScanExtensionRow ==
    /\ collector = Fanout
    /\ pc = "rows"
    /\ \/ \E extname \in ExtNames \ returned, extversion \in Versions :
             /\ ch' = Append(ch, InfoSample(dbName, extname, extversion))
             /\ returned' = returned \cup {extname}
             /\ seen' = [seen EXCEPT ![extname] =
                            Append(@, [datname |-> dbName, version |-> extversion])]
             /\ UNCHANGED <<pc, idx, openConns, err>>
       \/ \* rows.Scan fails, or rows.Next ends the loop (rows.Err nil or not):
          \* the deferred rows.Close and db.Close run, Update logs an error and goes on
          /\ openConns' = dbConnClose(openConns, dbName)
          /\ NextDatabase
          /\ UNCHANGED <<ch, seen>>
    /\ UNCHANGED <<instanceVars, scrapeVars, rewriteVars, superuserVars>>
    /\ UNCHANGED <<collector, excludedDatabases, includeDatabases, maxDatabases, databases,
                   eligibleDatabases, targetDatabases, extensions>>

(* PGExtensionsCollector *)

\* Update lines 70-93: the discovery query and the exclude filter
DiscoverDatabases ==
    /\ collector = Dedup
    /\ pc = "discover"
    /\ \/ \* the query, a rows.Scan or rows.Err fails
          /\ pc' = "done"
          /\ err' = "error"
          /\ UNCHANGED <<databases, eligibleDatabases, targetDatabases, idx>>
       \/ \E S \in SUBSET ServerDBs :
             LET kept == withoutExcluded(Ascending(S), excludedDatabases)
             IN /\ databases' = kept
                /\ eligibleDatabases' = kept
                /\ targetDatabases' = kept
                /\ idx' = 1
                /\ pc' = IF Len(kept) >= 1 THEN "connect" ELSE "emit"
                /\ UNCHANGED err
    /\ UNCHANGED <<instanceVars, scrapeVars, rewriteVars, superuserVars>>
    /\ UNCHANGED <<collector, excludedDatabases, includeDatabases, maxDatabases, openConns,
                   returned, extensions, ch, seen>>

\* Update lines 99-108
ConnectDB ==
    /\ collector = Dedup
    /\ pc = "connect"
    /\ \/ /\ openConns' = openConns \cup {dbName}
          /\ pc' = "query"
          /\ UNCHANGED <<idx, returned, err>>
       \/ \* connectionStringForDB or connectDB fails: continue
          /\ NextDatabase
          /\ UNCHANGED openConns
    /\ UNCHANGED <<instanceVars, scrapeVars, rewriteVars, superuserVars>>
    /\ UNCHANGED <<collector, excludedDatabases, includeDatabases, maxDatabases, databases,
                   eligibleDatabases, targetDatabases, extensions, ch, seen>>

\* Update lines 110-115
QueryExtensionsOfDB ==
    /\ collector = Dedup
    /\ pc = "query"
    /\ \/ /\ pc' = "rows"
          /\ returned' = {}
          /\ UNCHANGED <<idx, openConns, err>>
       \/ /\ openConns' = dbConnClose(openConns, dbName)
          /\ NextDatabase
    /\ UNCHANGED <<instanceVars, scrapeVars, rewriteVars, superuserVars>>
    /\ UNCHANGED <<collector, excludedDatabases, includeDatabases, maxDatabases, databases,
                   eligibleDatabases, targetDatabases, extensions, ch, seen>>

\* Update lines 117-138: one turn of the rows loop, or its end
ReadExtensionRow ==
    /\ collector = Dedup
    /\ pc = "rows"
    /\ \/ \E extname \in ExtNames \ returned, extversion \in Versions \cup {NULL} :
             /\ extensions' = MapAssign(extensions, extname, VersionString(extversion))
             /\ returned' = returned \cup {extname}
             /\ seen' = [seen EXCEPT ![extname] =
                            Append(@, [datname |-> dbName,
                                       version |-> VersionString(extversion)])]
             /\ UNCHANGED <<pc, idx, openConns, err>>
       \/ \* a row with a NULL extname is skipped
          UNCHANGED <<pc, idx, openConns, err, extensions, returned, seen>>
       \/ \* rows.Scan fails: both are closed and Update returns the error
          /\ openConns' = dbConnClose(openConns, dbName)
          /\ pc' = "done"
          /\ err' = "error"
          /\ UNCHANGED <<idx, extensions, returned, seen>>
       \/ \* rows.Next ends the loop (rows.Err nil, or logged): both are closed
          /\ openConns' = dbConnClose(openConns, dbName)
          /\ NextDatabase
          /\ UNCHANGED <<extensions, seen>>
    /\ UNCHANGED <<instanceVars, scrapeVars, rewriteVars, superuserVars>>
    /\ UNCHANGED <<collector, excludedDatabases, includeDatabases, maxDatabases, databases,
                   eligibleDatabases, targetDatabases, ch>>

\* Update lines 141-156
EmitSorted ==
    /\ collector = Dedup
    /\ pc = "emit"
    /\ \E keys \in KeyOrders(extensions) :
          ch' = ch \o InstalledSamples(SortStrings(extNamesOf(keys)), extensions)
    /\ pc' = "done"
    /\ err' = "nil"
    /\ UNCHANGED <<instanceVars, scrapeVars, rewriteVars, superuserVars>>
    /\ UNCHANGED <<collector, excludedDatabases, includeDatabases, maxDatabases, databases,
                   eligibleDatabases, targetDatabases, idx, openConns, returned,
                   extensions, seen>>

Next ==
    \/ GetDatabases
    \/ FilterExcluded
    \/ SelectTargets
    \/ ConnectToDatabase
    \/ QueryExtensions
    \/ ScanExtensionRow
    \/ DiscoverDatabases
    \/ ConnectDB
    \/ QueryExtensionsOfDB
    \/ ReadExtensionRow
    \/ EmitSorted

Spec == Init /\ [][Next]_vars

----------------------------------------------------------------------------
(* Properties of selectDatabases, stated on the state after the call *)

\* the priority databases present in eligible, as a set
PriorityPresent == Range(includeDatabases) \cap Range(eligibleDatabases)

\* position of the first occurrence of db in the configured priority list
FirstPos(db) == CHOOSE i \in 1..Len(includeDatabases) :
                    /\ includeDatabases[i] = db
                    /\ \A j \in 1..(i - 1) : includeDatabases[j] # db

\* position of db in eligible
EligiblePos(db) == CHOOSE i \in 1..Len(eligibleDatabases) : eligibleDatabases[i] = db

\* the entries of the result that are not priority databases
NonPriorityEntries == {i \in 1..Len(targetDatabases) : targetDatabases[i] \notin Range(includeDatabases)}

Returned == pc = "ret"

\* C3: for maxScan > 0 the result contains every priority database present in
\* eligible, also when there are more of them than maxScan; in that case no
\* non-priority entry is added; and the result has
\* max(|priority /\ eligible|, min(maxScan, |eligible|)) entries.
C3_PriorityNeverDropped ==
    (Returned /\ maxDatabases > 0) =>
        /\ PriorityPresent \subseteq Range(targetDatabases)
        /\ (Cardinality(PriorityPresent) > maxDatabases => NonPriorityEntries = {})
        /\ Len(targetDatabases) =
              Max(Cardinality(PriorityPresent), Min(maxDatabases, Len(eligibleDatabases)))

\* C3 witness: more priority databases are present than the budget allows, other
\* databases were eligible, and the call returned all the priority ones.
C3_Witness ==
    /\ Returned
    /\ maxDatabases > 0
    /\ Cardinality(PriorityPresent) > maxDatabases
    /\ Len(eligibleDatabases) > Cardinality(PriorityPresent)
    /\ Range(targetDatabases) = PriorityPresent

\* C4: for maxScan > 0 and every shuffle outcome the result starts with exactly
\* the priority databases present in eligible, in the order of the configured
\* priority list, and every non-priority entry comes after all of them.
C4_PriorityFirstInConfiguredOrder ==
    (Returned /\ maxDatabases > 0) =>
        LET k == Cardinality(PriorityPresent)
        IN /\ Len(targetDatabases) >= k
           /\ {targetDatabases[i] : i \in 1..k} = PriorityPresent
           /\ \A i, j \in 1..k :
                 i < j => FirstPos(targetDatabases[i]) < FirstPos(targetDatabases[j])
           /\ \A i \in (k + 1)..Len(targetDatabases) :
                 targetDatabases[i] \notin Range(includeDatabases)

\* C4 witness: two priority databases lead the result in configured order although
\* eligible lists them the other way round, and a non-priority entry follows them.
C4_Witness ==
    /\ Returned
    /\ maxDatabases > 0
    /\ Cardinality(PriorityPresent) = 2
    /\ Len(targetDatabases) > 2
    /\ EligiblePos(targetDatabases[1]) > EligiblePos(targetDatabases[2])
    /\ FirstPos(targetDatabases[1]) < FirstPos(targetDatabases[2])
    /\ targetDatabases[3] \notin Range(includeDatabases)

\* C5 (as claimed): with a budget 0 < maxScan < len(eligible) the result has
\* exactly maxScan entries, for every priority list and every shuffle outcome.
C5_ExactlyMaxScan ==
    (Returned /\ maxDatabases > 0 /\ maxDatabases < Len(eligibleDatabases)) =>
        Len(targetDatabases) = maxDatabases

\* C5 (amended): with a budget 0 < maxScan < len(eligible) the result has exactly
\* maxScan entries when at most maxScan priority databases are present in
\* eligible, and otherwise exactly as many entries as priority databases present.
C5_ExactlyMaxScanUnlessPriorityExceeds ==
    (Returned /\ maxDatabases > 0 /\ maxDatabases < Len(eligibleDatabases)) =>
        IF Cardinality(PriorityPresent) <= maxDatabases
        THEN Len(targetDatabases) = maxDatabases
        ELSE Len(targetDatabases) = Cardinality(PriorityPresent)

\* C5 witness: a budget below len(eligible), a priority database present, and a
\* result of exactly maxScan entries of which one is not a priority database.
C5_Witness ==
    /\ Returned
    /\ maxDatabases > 0
    /\ maxDatabases < Len(eligibleDatabases)
    /\ PriorityPresent # {}
    /\ NonPriorityEntries # {}
    /\ Len(targetDatabases) = maxDatabases

\* C6: with maxScan <= 0 the result is the eligible list itself, same names in
\* the same order, whatever the priority list.
C6_NoLimitReturnsEligible ==
    (Returned /\ maxDatabases <= 0) => targetDatabases = eligibleDatabases

\* C6 witness: budget 0, a priority database that is not first in eligible, and a
\* result equal to eligible.
C6_Witness ==
    /\ Returned
    /\ maxDatabases = 0
    /\ Len(eligibleDatabases) >= 2
    /\ \E i \in 2..Len(eligibleDatabases) : eligibleDatabases[i] \in Range(includeDatabases)
    /\ eligibleDatabases[1] \notin Range(includeDatabases)
    /\ targetDatabases = eligibleDatabases

\* C7: every name in the result is a member of eligible, and for maxScan > 0 the
\* number of non-priority entries is what is left of maxScan after the priority
\* names present in eligible (absent ones use up no budget), capped by the number
\* of non-priority eligible databases.
C7_AbsentPriorityIgnored ==
    Returned =>
        /\ Range(targetDatabases) \subseteq Range(eligibleDatabases)
        /\ maxDatabases > 0 =>
              Cardinality(NonPriorityEntries) =
                 Min(Max(0, maxDatabases - Cardinality(PriorityPresent)),
                     Len(eligibleDatabases) - Cardinality(PriorityPresent))

\* C7 witness: a configured priority name is absent from eligible, one is present,
\* and the budget left after the present one alone was filled with other databases.
C7_Witness ==
    /\ Returned
    /\ maxDatabases > 0
    /\ Range(includeDatabases) \ Range(eligibleDatabases) # {}
    /\ Cardinality(PriorityPresent) = 1
    /\ Len(targetDatabases) = maxDatabases
    /\ Cardinality(NonPriorityEntries) = maxDatabases - 1
    /\ maxDatabases >= 2

----------------------------------------------------------------------------
(* Properties of Update *)

\* the positions of ch that hold a sample of an extension
ExtSamples == {i \in 1..Len(ch) : ch[i].metric \in {"info", "installed"}}

\* the samples of ch that carry the extension name n
SamplesOf(n) == {i \in ExtSamples : ch[i].extname = n}

\* the extension names that were read from some scanned database
ObservedNames == {n \in ExtNames : seen[n] # <<>>}

\* position of database d in the list the loop ranges over
ScanPos(d) == CHOOSE i \in 1..Len(targetDatabases) : targetDatabases[i] = d

\* Update has returned after its loop over the databases was entered
ReturnedAfterLoopStart == pc = "done" /\ idx >= 1

\* the discovery query and its row loop succeeded
DiscoverySucceeded == idx >= 1 \/ ch # <<>>

\* C1: once Update has started on the selected databases, a failure to connect
\* to, query or read rows from one of them aborts only that database: when Update
\* returns, the loop has reached every selected database, and every extension
\* read from a database has a sample in the sink.
C1_FailureAbortsOnlyThatDatabase ==
    ReturnedAfterLoopStart =>
        /\ idx >= Len(targetDatabases)
        /\ \A n \in ObservedNames : SamplesOf(n) # {}

\* C2: once database discovery has succeeded, Update ends with a nil error
\* whatever number of per-database steps failed.
C2_TerminalStateIsEmit ==
    (pc = "done" /\ DiscoverySucceeded) => err = "nil"

LastObserved(n) ==
    CHOOSE e \in Range(seen[n]) :
        \A f \in Range(seen[n]) : ScanPos(f.datname) <= ScanPos(e.datname)

\* C9: after PGExtensionsCollector succeeded, each emitted sample carries the
\* version read from the database scanned last among those the extension was read
\* from.
C9_LastWriteWins ==
    (collector = Dedup /\ pc = "done" /\ err = "nil") =>
        \A i \in ExtSamples :
            /\ ch[i].extname \in ObservedNames
            /\ ch[i].extversion = LastObserved(ch[i].extname).version

\* C9 witness: an extension was read with different versions from two databases
\* and its sample carries the version of the one scanned later.
C9_Witness ==
    /\ collector = Dedup
    /\ pc = "done"
    /\ err = "nil"
    /\ \E i \in ExtSamples :
          LET h == seen[ch[i].extname]
          IN /\ Len(h) >= 2
             /\ h[1].version # h[Len(h)].version
             /\ ScanPos(h[1].datname) < ScanPos(h[Len(h)].datname)
             /\ ch[i].extversion = h[Len(h)].version

----------------------------------------------------------------------------
(* Fan-out connections and the exclude list *)

\* the loop of Update is inside the step of one database: its connection was
\* opened and the step has not ended yet
InDatabaseStep == pc \in {"query", "rows"}

\* C11: a fan-out connection is open only while the step of its database is
\* running, and then it is the only one; once the step has ended on any path
\* (result set exhausted, query error, row-scan error, row-iteration error), and
\* so when Update has returned, no fan-out connection is open.
C11_FanoutConnectionsClosed ==
    /\ InDatabaseStep => openConns = {dbName}
    /\ ~InDatabaseStep => openConns = {}

\* C11 witness: PGExtensionsCollector returned the error of a failed row scan of
\* its second database, after the step of the first one had ended, and neither
\* connection is open.
C11_Witness ==
    /\ collector = Dedup
    /\ pc = "done"
    /\ err = "error"
    /\ Len(targetDatabases) >= 2
    /\ idx = 2
    /\ openConns = {}

\* C12: no excluded database is among the databases selected for the scan, has a
\* connection open, or has had an extension row read from it, also when the
\* priority list names it.
C12_ExcludedNeverScanned ==
    /\ Range(targetDatabases) \cap excludedDatabases = {}
    /\ openConns \cap excludedDatabases = {}
    /\ \A n \in ExtNames : \A i \in 1..Len(seen[n]) :
          seen[n][i].datname \notin excludedDatabases

\* C12 witness: the server returned a database that is both excluded and named in
\* the priority list, and PGExtensionCollector is reading the rows of another one.
C12_Witness ==
    /\ collector = Fanout
    /\ pc = "rows"
    /\ \E d \in Range(databases) :
          d \in excludedDatabases /\ d \in Range(includeDatabases)
    /\ openConns # {}
    /\ \E n \in ExtNames : Len(seen[n]) >= 1

----------------------------------------------------------------------------
(* Version detection: queryVersion *)

\* longest version string tried where every string is tried
MaxVersionLen == 3

\* the bytes the version strings are made of: "P", " ", "7" and "."
VersionChars == {80, 32, 55, 46}

\* every string of at most MaxVersionLen of these bytes
VersionRows == SeqsUpTo(VersionChars, MaxVersionLen)

\* db.QueryRow(...).Scan(&version) returned an error instead of a string (a value
\* that is no byte string)
QueryError == <<-1>>

\* semver.Version{}, the zero value
ZeroVersion == <<0, 0, 0>>

SelectVersion == "SELECT version();"
ShowServerVersion == "SHOW server_version;"

\* \d
IsDigit(c) == c \in 48..57

\* \w
IsWord(c) == IsDigit(c) \/ c \in 65..90 \/ c \in 97..122 \/ c = 95

\* the length of the longest run of digits of s that starts at position i
DigitRun(s, i) ==
    Cardinality({n \in 1..(Len(s) - i + 1) : \A j \in i..(i + n - 1) : IsDigit(s[j])})

\* the length of the longest run of word bytes of s that starts at position i
WordRun(s, i) ==
    Cardinality({n \in 1..(Len(s) - i + 1) : \A j \in i..(i + n - 1) : IsWord(s[j])})

\* (\.\d+)? at position e: the position after it, e itself when it is absent
OptDotDigits(s, e) ==
    IF e <= Len(s) /\ s[e] = 46 /\ DigitRun(s, e + 1) > 0
    THEN e + 1 + DigitRun(s, e + 1)
    ELSE e

\* ((\d+)(\.\d+)?(\.\d+)?) at position i: the position after the match, 0 when
\* there is no digit at i
VersionEnd(s, i) ==
    IF DigitRun(s, i) = 0 THEN 0
    ELSE OptDotDigits(s, OptDotDigits(s, i + DigitRun(s, i)))

\* versionRegex.FindStringSubmatch(s) for ^\w+ ((\d+)(\.\d+)?(\.\d+)?): the whole
\* match and the first group, or nil
versionRegex(s) ==
    LET w == WordRun(s, 1)
    IN IF w >= 1 /\ w + 1 <= Len(s) /\ s[w + 1] = 32 /\ VersionEnd(s, w + 2) # 0
       THEN <<SubSeq(s, 1, VersionEnd(s, w + 2) - 1),
              SubSeq(s, w + 2, VersionEnd(s, w + 2) - 1)>>
       ELSE <<>>

\* serverVersionRegex.FindStringSubmatch(s) for ^((\d+)(\.\d+)?(\.\d+)?)
serverVersionRegex(s) ==
    IF VersionEnd(s, 1) # 0
    THEN <<SubSeq(s, 1, VersionEnd(s, 1) - 1), SubSeq(s, 1, VersionEnd(s, 1) - 1)>>
    ELSE <<>>

\* the decimal value of a string of digits
RECURSIVE Atoi(_)
Atoi(d) ==
    IF d = <<>> THEN 0
    ELSE Atoi(SubSeq(d, 1, Len(d) - 1)) * 10 + (d[Len(d)] - 48)

\* strings.SplitN(s, ".", 3) of a string the regexes matched (at most two dots)
RECURSIVE SplitDots(_)
SplitDots(s) ==
    IF \A i \in 1..Len(s) : s[i] # 46 THEN <<s>>
    ELSE LET i == CHOOSE k \in 1..Len(s) : s[k] = 46 /\ \A j \in 1..(k - 1) : s[j] # 46
         IN <<SubSeq(s, 1, i - 1)>> \o SplitDots(SubSeq(s, i + 1, Len(s)))

\* semver.ParseTolerant of a string the regexes matched: missing minor and patch
\* are 0, leading zeros are dropped
ParseTolerant(s) ==
    LET parts == SplitDots(s)
        num(k) == IF k <= Len(parts) THEN Atoi(parts[k]) ELSE 0
    IN <<num(1), num(2), num(3)>>

\* a.LT(b) of semver versions without pre-release
VersionLT(a, b) ==
    \/ a[1] < b[1]
    \/ a[1] = b[1] /\ a[2] < b[2]
    \/ a[1] = b[1] /\ a[2] = b[2] /\ a[3] < b[3]

\* queryVersion with the server-version query tried first
queryVersion_bareFirst(row, serverRow) ==
    IF serverRow = QueryError
    THEN [version |-> ZeroVersion, err |-> "query error", stmts |-> <<ShowServerVersion>>]
    ELSE IF Len(serverVersionRegex(serverRow)) > 1
    THEN [version |-> ParseTolerant(serverVersionRegex(serverRow)[2]), err |-> "nil",
          stmts |-> <<ShowServerVersion>>]
    ELSE IF row = QueryError
    THEN [version |-> ZeroVersion, err |-> "query error",
          stmts |-> <<ShowServerVersion, SelectVersion>>]
    ELSE IF Len(versionRegex(row)) > 1
    THEN [version |-> ParseTolerant(versionRegex(row)[2]), err |-> "nil",
          stmts |-> <<ShowServerVersion, SelectVersion>>]
    ELSE [version |-> ZeroVersion, err |-> "could not parse version",
          stmts |-> <<ShowServerVersion, SelectVersion>>]

\* queryVersion(db), where row is what SELECT version() returns and serverRow what
\* SHOW server_version returns (a string or QueryError): the version, the error
\* and the statements issued
queryVersion(row, serverRow) ==
    IF row = QueryError
    THEN [version |-> ZeroVersion, err |-> "query error", stmts |-> <<SelectVersion>>]
    ELSE IF Len(versionRegex(row)) > 1
    THEN [version |-> ParseTolerant(versionRegex(row)[2]), err |-> "nil",
          stmts |-> <<SelectVersion>>]
    ELSE IF serverRow = QueryError
    THEN [version |-> ZeroVersion, err |-> "query error",
          stmts |-> <<SelectVersion, ShowServerVersion>>]
    ELSE IF Len(serverVersionRegex(serverRow)) > 1
    THEN [version |-> ParseTolerant(serverVersionRegex(serverRow)[2]), err |-> "nil",
          stmts |-> <<SelectVersion, ShowServerVersion>>]
    ELSE [version |-> ZeroVersion, err |-> "could not parse version",
          stmts |-> <<SelectVersion, ShowServerVersion>>]

----------------------------------------------------------------------------
(* Instance: NewInstance, copy, setup, SetupWithConnection, Close *)

\* number of Instances where call sequences on shared connections are tried
NumInstances == 2
\* most connections in one behaviour, the host's one included
MaxConns == 2

\* i.db == nil
NoDB == 0

\* the connection was opened by the host application, not by an Instance
Host == 0

SetTimeout == "SET statement_timeout"

\* statementTimeout values: none, and five seconds in milliseconds
Timeouts == {0, 5000}

\* what the two version queries return where whole call sequences are tried, made
\* of "P 16.4" (verbose form), "17.0 (" (bare form) and "P P" (neither form): the
\* first one matches; only the second one matches; none matches; the first query
\* fails; the second query fails
SampleRowPairs ==
    {<<<<80, 32, 49, 54, 46, 52>>, <<80, 32, 80>>>>,
     <<<<80, 32, 80>>, <<49, 55, 46, 48, 32, 40>>>>,
     <<<<80, 32, 80>>, <<80, 32, 80>>>>,
     <<QueryError, <<80, 32, 80>>>>,
     <<<<80, 32, 80>>, QueryError>>}

\* what queryVersion returns on these pairs
SampleQueryVersions == {queryVersion(p[1], p[2]) : p \in SampleRowPairs}

\* how a setup can go: sql.Open fails; the SET statement fails; or both succeed
\* and queryVersion returns one of these results
SetupOutcomes ==
    {<<FALSE, TRUE, queryVersion(QueryError, QueryError)>>,
     <<TRUE, FALSE, queryVersion(QueryError, QueryError)>>}
    \cup {<<TRUE, TRUE, qv>> : qv \in SampleQueryVersions}

\* NewInstance(dsn, statementTimeout): no connection is kept
NewInstance(dsn, statementTimeout) ==
    [dsn |-> dsn, db |-> NoDB, version |-> ZeroVersion, closeDB |-> FALSE,
     statementTimeout |-> statementTimeout]

\* i.copy()
copy(inst) ==
    [dsn |-> inst.dsn, db |-> NoDB, version |-> ZeroVersion, closeDB |-> FALSE,
     statementTimeout |-> inst.statementTimeout]

\* the statement-timeout step of setup and SetupWithConnection: the statements it
\* issues
timeoutStmts(inst) == IF inst.statementTimeout > 0 THEN <<SetTimeout>> ELSE <<>>

\* setup with the version queried before the timeout is set
setup_versionFirst(i, inst, cs, openOK, setOK, qv) ==
    IF ~openOK
    THEN [inst |-> inst, conns |-> cs, stmts |-> <<>>, closed |-> NoDB, err |-> "sql.Open"]
    ELSE LET c == Len(cs) + 1
             own == [inst EXCEPT !.db = c, !.closeDB = TRUE]
         IN [inst |-> IF qv.err = "nil" THEN [own EXCEPT !.version = qv.version] ELSE own,
             conns |-> Append(cs, [open |-> TRUE, creator |-> i]),
             stmts |-> qv.stmts \o timeoutStmts(inst),
             closed |-> NoDB,
             err |-> IF qv.err = "nil" THEN "nil" ELSE "error querying postgresql version"]

\* i.setup() of Instance number i with fields inst, where cs are the connections
\* opened so far; openOK: sql.Open succeeds, setOK: the SET statement succeeds,
\* qv: what queryVersion(i.db) returns when setup calls it.  The result has the
\* Instance and the connections afterwards, the statements issued on the new
\* connection, the connection closed (or NoDB) and the error.
setup(i, inst, cs, openOK, setOK, qv) ==
    IF ~openOK
    THEN [inst |-> inst, conns |-> cs, stmts |-> <<>>, closed |-> NoDB, err |-> "sql.Open"]
    ELSE LET c == Len(cs) + 1
             own == [inst EXCEPT !.db = c, !.closeDB = TRUE]
         IN IF timeoutStmts(inst) # <<>> /\ ~setOK
            THEN [inst |-> own,
                  conns |-> Append(cs, [open |-> FALSE, creator |-> i]),
                  stmts |-> timeoutStmts(inst),
                  closed |-> c,
                  err |-> "failed to set statement timeout"]
            ELSE [inst |-> IF qv.err = "nil" THEN [own EXCEPT !.version = qv.version]
                           ELSE own,
                  conns |-> Append(cs, [open |-> TRUE, creator |-> i]),
                  stmts |-> timeoutStmts(inst) \o qv.stmts,
                  closed |-> NoDB,
                  err |-> IF qv.err = "nil" THEN "nil"
                          ELSE "error querying postgresql version"]

\* i.SetupWithConnection(db) with db the connection number c and qv what
\* queryVersion(i.db) returns when it is called
SetupWithConnection(inst, cs, c, setOK, qv) ==
    LET borrowed == [inst EXCEPT !.db = c, !.closeDB = FALSE]
    IN IF timeoutStmts(inst) # <<>> /\ ~setOK
       THEN [inst |-> borrowed, conns |-> cs, stmts |-> timeoutStmts(inst),
             closed |-> NoDB, err |-> "failed to set statement timeout"]
       ELSE [inst |-> IF qv.err = "nil" THEN [borrowed EXCEPT !.version = qv.version]
                      ELSE borrowed,
             conns |-> cs,
             stmts |-> timeoutStmts(inst) \o qv.stmts,
             closed |-> NoDB,
             err |-> IF qv.err = "nil" THEN "nil" ELSE "error querying postgresql version"]

\* Close that closes whatever connection the Instance holds
Close_always(inst, cs) ==
    IF inst.db # NoDB
    THEN [inst |-> inst, conns |-> [cs EXCEPT ![inst.db].open = FALSE],
          stmts |-> <<>>, closed |-> inst.db, err |-> "nil"]
    ELSE [inst |-> inst, conns |-> cs, stmts |-> <<>>, closed |-> NoDB, err |-> "nil"]

\* i.Close()
Close(inst, cs) ==
    IF inst.closeDB
    THEN [inst |-> inst, conns |-> [cs EXCEPT ![inst.db].open = FALSE],
          stmts |-> <<>>, closed |-> inst.db, err |-> "nil"]
    ELSE [inst |-> inst, conns |-> cs, stmts |-> <<>>, closed |-> NoDB, err |-> "nil"]

\* the record of a call kept in lastCall
Call(op, i, r) == [op |-> op, inst |-> i, stmts |-> r.stmts, closed |-> r.closed, err |-> r.err]

\* no Update of an extension probe is running: the state of its variables where
\* the Instance or the orchestrator is modelled
NoUpdate ==
    /\ collector = "none"
    /\ excludedDatabases = {}
    /\ includeDatabases = <<>>
    /\ maxDatabases = 0
    /\ pc = "idle"
    /\ databases = <<>>
    /\ eligibleDatabases = <<>>
    /\ targetDatabases = <<>>
    /\ idx = 0
    /\ openConns = {}
    /\ returned = {}
    /\ extensions = MapEmpty
    /\ err = "unset"
    /\ seen = [n \in ExtNames |-> <<>>]

(* Specification SpecVersion: setup of a fresh Instance on every pair of version strings *)

InitVersion ==
    /\ instances \in {<<NewInstance("dsn", t)>> : t \in Timeouts}
    /\ conns = <<>>
    /\ lastCall = NoCall
    /\ versionRows \in (VersionRows \cup {QueryError}) \X (VersionRows \cup {QueryError})
    /\ NoUpdate
    /\ ch = <<>>
    /\ NoScrape
    /\ NoRewrite
    /\ NoSuperusers

SetupOnRows ==
    /\ lastCall = NoCall
    /\ \E openOK \in BOOLEAN, setOK \in BOOLEAN :
          LET r == setup(1, instances[1], conns, openOK, setOK,
                         queryVersion(versionRows[1], versionRows[2]))
          IN /\ instances' = [instances EXCEPT ![1] = r.inst]
             /\ conns' = r.conns
             /\ lastCall' = Call("setup", 1, r)
    /\ UNCHANGED <<versionRows, updateVars, ch, scrapeVars, rewriteVars, superuserVars>>

NextVersion == SetupOnRows

SpecVersion == InitVersion /\ [][NextVersion]_vars

(* Specification SpecInstance: setup, SetupWithConnection and Close called in any *)
(* order on Instances that share a connection of the host                         *)

InitInstance ==
    /\ instances \in [1..NumInstances -> {NewInstance("dsn", t) : t \in Timeouts}]
    /\ conns = <<[open |-> TRUE, creator |-> Host]>>
    /\ lastCall = NoCall
    /\ versionRows = <<>>
    /\ NoUpdate
    /\ ch = <<>>
    /\ NoScrape
    /\ NoRewrite
    /\ NoSuperusers

CallSetup ==
    /\ Len(conns) < MaxConns
    /\ \E i \in 1..NumInstances, o \in SetupOutcomes :
          LET r == setup(i, instances[i], conns, o[1], o[2], o[3])
          IN /\ instances' = [instances EXCEPT ![i] = r.inst]
             /\ conns' = r.conns
             /\ lastCall' = Call("setup", i, r)
    /\ UNCHANGED <<versionRows, updateVars, ch, scrapeVars, rewriteVars, superuserVars>>

\* the connections supplied are the host's own, not ones a setup created
CallSetupWithConnection ==
    /\ \E i \in 1..NumInstances, c \in {k \in 1..Len(conns) : conns[k].creator = Host},
          o \in {p \in SetupOutcomes : p[1]} :
          LET r == SetupWithConnection(instances[i], conns, c, o[2], o[3])
          IN /\ instances' = [instances EXCEPT ![i] = r.inst]
             /\ conns' = r.conns
             /\ lastCall' = Call("SetupWithConnection", i, r)
    /\ UNCHANGED <<versionRows, updateVars, ch, scrapeVars, rewriteVars, superuserVars>>

CallClose ==
    /\ \E i \in 1..NumInstances :
          LET r == Close(instances[i], conns)
          IN /\ instances' = [instances EXCEPT ![i] = r.inst]
             /\ conns' = r.conns
             /\ lastCall' = Call("Close", i, r)
    /\ UNCHANGED <<versionRows, updateVars, ch, scrapeVars, rewriteVars, superuserVars>>

NextInstance ==
    \/ CallSetup
    \/ CallSetupWithConnection
    \/ CallClose

SpecInstance == InitInstance /\ [][NextInstance]_vars

----------------------------------------------------------------------------
(* Properties of the Instance *)

\* the last call was a setup or a SetupWithConnection
LastCallIsSetup == lastCall.op \in {"setup", "SetupWithConnection"}

C16_TimeoutBeforeVersion ==
    LastCallIsSetup =>
        LET t == instances[lastCall.inst].statementTimeout
            s == lastCall.stmts
        IN /\ (t > 0 /\ lastCall.err # "sql.Open") =>
                 /\ s # <<>>
                 /\ s[1] = SetTimeout
                 /\ \A k \in 2..Len(s) : s[k] # SetTimeout
           /\ lastCall.err = "failed to set statement timeout" =>
                 (t > 0 /\ s = <<SetTimeout>>)
           /\ t = 0 => SetTimeout \notin Range(s)

\* C16 witness: a setup whose SET statement failed returned the error after that
\* one statement, and its connection is closed.
C16_Witness ==
    /\ lastCall.op = "setup"
    /\ lastCall.err = "failed to set statement timeout"
    /\ lastCall.stmts = <<SetTimeout>>
    /\ lastCall.closed # NoDB

\* the version statements of the last call
VersionStmts == SelectSeq(lastCall.stmts, LAMBDA q : q # SetTimeout)

\* SELECT version() returned a string of the verbose form
VerboseMatches == versionRows[1] # QueryError /\ Len(versionRegex(versionRows[1])) > 1

\* SHOW server_version returned a string of the bare form
BareMatches == versionRows[2] # QueryError /\ Len(serverVersionRegex(versionRows[2])) > 1

\* C17: a setup that gets as far as version detection issues SELECT version()
\* first and SHOW server_version only when the first query returned a string that
\* is not of the verbose form; the version is taken from the verbose form when it
\* matches and from the bare form only otherwise; when a query that was issued
\* fails, or neither form matches, setup returns an error and the Instance's
\* version stays the zero value.
C17_VerboseFormFirst ==
    (lastCall.op = "setup"
        /\ lastCall.err \notin {"sql.Open", "failed to set statement timeout"}) =>
        /\ VersionStmts # <<>> /\ VersionStmts[1] = SelectVersion
        /\ ShowServerVersion \in Range(VersionStmts) <=>
              (versionRows[1] # QueryError /\ ~VerboseMatches)
        /\ VerboseMatches =>
              /\ lastCall.err = "nil"
              /\ instances[1].version = ParseTolerant(versionRegex(versionRows[1])[2])
        /\ (versionRows[1] # QueryError /\ ~VerboseMatches /\ BareMatches) =>
              /\ lastCall.err = "nil"
              /\ instances[1].version = ParseTolerant(serverVersionRegex(versionRows[2])[2])
        /\ (versionRows[1] = QueryError \/ (~VerboseMatches /\ ~BareMatches)) =>
              /\ lastCall.err # "nil"
              /\ instances[1].version = ZeroVersion

\* C17 witness: SELECT version() returned "7.7", which is not of the verbose form,
\* SHOW server_version returned "7.7" and setup stored version 7.7.0.
C17_Witness ==
    /\ lastCall.op = "setup"
    /\ lastCall.err = "nil"
    /\ versionRows = <<<<55, 46, 55>>, <<55, 46, 55>>>>
    /\ VersionStmts = <<SelectVersion, ShowServerVersion>>
    /\ instances[1].version = <<7, 7, 0>>

----------------------------------------------------------------------------
(* One scrape: the Instance factory, the orchestrator and two of its probes *)

\* a statement that reached the server: its text and its argument
Stmt(q, arg) == [q |-> q, arg |-> arg]

\* the factory that hands out the Instance although its setup failed
InstanceFactoryFromTemplate_ignoreErr(template, i, cs, openOK, setOK, qv) ==
    LET r == setup(i, copy(template), cs, openOK, setOK, qv)
    IN [template |-> template, inst |-> <<r.inst>>, err |-> "nil", setup |-> r]

\* the factory that sets up the template itself and hands it out, without a copy
InstanceFactoryFromTemplate_noCopy(template, i, cs, openOK, setOK, qv) ==
    LET r == setup(i, template, cs, openOK, setOK, qv)
    IN IF r.err # "nil"
       THEN [template |-> r.inst, inst |-> <<>>, err |-> r.err, setup |-> r]
       ELSE [template |-> r.inst, inst |-> <<r.inst>>, err |-> "nil", setup |-> r]

\* the function InstanceFactoryFromTemplate(template) returns, called when cs are
\* the connections opened so far and i is the number of the new Instance: the
\* template afterwards, the Instance returned (none on an error), the error, and
\* what setup did
InstanceFactoryFromTemplate(template, i, cs, openOK, setOK, qv) ==
    LET r == setup(i, copy(template), cs, openOK, setOK, qv)
    IN IF r.err # "nil"
       THEN [template |-> template, inst |-> <<>>, err |-> r.err, setup |-> r]
       ELSE [template |-> template, inst |-> <<r.inst>>, err |-> "nil", setup |-> r]

SynchronizedStandbySlots == "synchronized_standby_slots"
PostgresBinaries == "postgres_binaries"

\* the probes of the modelled scrapes
Probes == {SynchronizedStandbySlots, PostgresBinaries}

synchronizedStandbySlotsQuery == "SELECT count(*) AS invalid_count FROM unnest(...)"

\* what QueryRowContext(...).Scan(&invalidCount) of the standby-slots probe can
\* give: an error, or a sql.NullInt64 that is NULL, 0 or 2
ScanResult(failed, valid, n) == [failed |-> failed, Valid |-> valid, Int64 |-> n]

InvalidCounts ==
    {ScanResult(TRUE, FALSE, 0), ScanResult(FALSE, FALSE, 0),
     ScanResult(FALSE, TRUE, 0), ScanResult(FALSE, TRUE, 2)}

\* a sample without labels
GaugeSample(metric, value) == Sample(metric, 0, EmptyString, "", value)

\* the result of one Update: the samples sent, the error returned and the
\* statements that reached the server
UpdateResult(samples, e, stmts) == [samples |-> samples, err |-> e, stmts |-> stmts]

\* Update of the standby-slots probe without the version gate
PGSynchronizedStandbySlotsCollector_Update_noGate(inst, ctxDone, invalidCount) ==
    IF ctxDone THEN UpdateResult(<<>>, "error", <<>>)
    ELSE IF invalidCount.failed
    THEN UpdateResult(<<>>, "error", <<Stmt(synchronizedStandbySlotsQuery, "")>>)
    ELSE UpdateResult(
            <<GaugeSample("synchronized_standby_slots_invalid",
                          IF invalidCount.Valid THEN invalidCount.Int64 ELSE 0)>>,
            "nil", <<Stmt(synchronizedStandbySlotsQuery, "")>>)

\* PGSynchronizedStandbySlotsCollector.Update(ctx, instance, ch); ctxDone: ctx is
\* cancelled, so QueryRowContext fails without reaching the server; invalidCount:
\* what the query and its Scan give
PGSynchronizedStandbySlotsCollector_Update(inst, ctxDone, invalidCount) ==
    IF VersionLT(inst.version, <<17, 0, 0>>)
    THEN UpdateResult(<<>>, "nil", <<>>)
    ELSE IF ctxDone THEN UpdateResult(<<>>, "error", <<>>)
    ELSE IF invalidCount.failed
    THEN UpdateResult(<<>>, "error", <<Stmt(synchronizedStandbySlotsQuery, "")>>)
    ELSE UpdateResult(
            <<GaugeSample("synchronized_standby_slots_invalid",
                          IF invalidCount.Valid THEN invalidCount.Int64 ELSE 0)>>,
            "nil", <<Stmt(synchronizedStandbySlotsQuery, "")>>)

\* the build-timestamp functions of the binaries probe, in the order it checks them
BuildTimestampFuncs ==
    <<"pg_pscale_utils_build_unix_timestamp", "pg_readonly_build_unix_timestamp",
      "pginsights_build_unix_timestamp">>

\* the timestamp each of them returns
BuildTimestamps == <<1700000001, 1700000002, 1700000003>>

binariesExistsQuery == "SELECT EXISTS (SELECT 1 FROM pg_proc WHERE proname = $1)"

binariesTimestampQuery == "SELECT <function>()"

ErrNoData == "ErrNoData"

\* how the server answers for one function: it exists and returns its timestamp,
\* it does not exist, the existence query fails, or the timestamp query fails
FuncStates == {"exists", "missing", "exists query fails", "timestamp query fails"}

\* the statements the binaries probe issues for function k
FuncStmts(funcs, k) ==
    <<Stmt(binariesExistsQuery, BuildTimestampFuncs[k])>>
    \o (IF funcs[k] \in {"exists", "timestamp query fails"}
        THEN <<Stmt(binariesTimestampQuery, BuildTimestampFuncs[k])>>
        ELSE <<>>)

\* the statements issued for the functions 1..k
RECURSIVE StmtsUpTo(_, _)
StmtsUpTo(funcs, k) ==
    IF k = 0 THEN <<>> ELSE StmtsUpTo(funcs, k - 1) \o FuncStmts(funcs, k)

\* the samples of the functions 1..k that exist
RECURSIVE BinariesSamples(_, _)
BinariesSamples(funcs, k) ==
    IF k = 0 THEN <<>>
    ELSE BinariesSamples(funcs, k - 1)
         \o (IF funcs[k] = "exists"
             THEN <<GaugeSample(BuildTimestampFuncs[k], BuildTimestamps[k])>>
             ELSE <<>>)

\* the binaries probe answering "no function" with a zero-valued sample
PostgresBinariesCollector_Update_zeroSample(inst, ctxDone, funcs) ==
    LET n == Len(BuildTimestampFuncs)
        failing == {k \in 1..n : funcs[k] \in {"exists query fails", "timestamp query fails"}}
    IN IF ctxDone THEN UpdateResult(<<>>, "error", <<>>)
       ELSE IF failing # {}
       THEN UpdateResult(<<>>, "error",
                         StmtsUpTo(funcs, CHOOSE k \in failing : \A j \in failing : k <= j))
       ELSE IF BinariesSamples(funcs, n) = <<>>
       THEN UpdateResult(<<GaugeSample(BuildTimestampFuncs[1], 0)>>, "nil", StmtsUpTo(funcs, n))
       ELSE UpdateResult(BinariesSamples(funcs, n), "nil", StmtsUpTo(funcs, n))

\* PostgresBinariesCollector.Update(ctx, instance, ch), where funcs[k] is how the
\* server answers for function k: the functions are checked in order; the first
\* failing query ends the call with its error and without a sample; otherwise
\* one sample per existing function, or ErrNoData when none exists
PostgresBinariesCollector_Update(inst, ctxDone, funcs) ==
    LET n == Len(BuildTimestampFuncs)
        failing == {k \in 1..n : funcs[k] \in {"exists query fails", "timestamp query fails"}}
    IN IF ctxDone THEN UpdateResult(<<>>, "error", <<>>)
       ELSE IF failing # {}
       THEN UpdateResult(<<>>, "error",
                         StmtsUpTo(funcs, CHOOSE k \in failing : \A j \in failing : k <= j))
       ELSE IF BinariesSamples(funcs, n) = <<>>
       THEN UpdateResult(<<>>, ErrNoData, StmtsUpTo(funcs, n))
       ELSE UpdateResult(BinariesSamples(funcs, n), "nil", StmtsUpTo(funcs, n))

\* the per-probe outcome the orchestrator records: the probe, the error of its
\* Update, the success signal, and the samples, statements and server answers of
\* the invocation
execute(name, r, invalidCount, funcs) ==
    [probe |-> name, err |-> r.err, success |-> IF r.err = "nil" THEN 1 ELSE 0,
     samples |-> r.samples, stmts |-> r.stmts,
     invalidCount |-> invalidCount, funcs |-> funcs]

\* an orchestrator that stops the scrape at the first failing probe
afterProbe_abortOnError(e, i, n) == IF i + 1 > n \/ e # "nil" THEN "done" ELSE "probes"

\* where the orchestrator goes after probe i of n returned e: on to the next probe
\* whatever e is, or to the end after the last one
afterProbe(e, i, n) == IF i + 1 > n THEN "done" ELSE "probes"

(* Specification SpecScrape *)

InitScrape ==
    /\ instances \in {<<NewInstance("dsn", t)>> : t \in Timeouts}
    /\ conns = <<>>
    /\ lastCall = NoCall
    /\ versionRows = <<>>
    /\ scrapePc = "obtain"
    /\ enabledProbes \in DistinctSeqs(Probes)
    /\ probeIdx = 0
    /\ outcomes = <<>>
    /\ cancelled = FALSE
    /\ lateCalls = <<>>
    /\ NoUpdate
    /\ ch = <<>>
    /\ NoRewrite
    /\ NoSuperusers

\* the calls among stmts that reach the server although the context is cancelled
Late(stmts) == IF cancelled THEN stmts ELSE <<>>

\* step 1 of a scrape: the factory is called; its error ends the scrape
ObtainInstance ==
    /\ scrapePc = "obtain"
    /\ \E o \in SetupOutcomes :
          LET f == InstanceFactoryFromTemplate(instances[1], 2, conns, o[1], o[2], o[3])
          IN /\ instances' = <<f.template>> \o f.inst
             /\ conns' = f.setup.conns
             /\ lastCall' = Call("setup", 2, f.setup)
             /\ lateCalls' = lateCalls
                   \o Late([k \in 1..Len(f.setup.stmts) |-> Stmt(f.setup.stmts[k], "")])
             /\ IF f.err # "nil" \/ enabledProbes = <<>>
                THEN scrapePc' = "done" /\ probeIdx' = 0
                ELSE scrapePc' = "probes" /\ probeIdx' = 1
    /\ UNCHANGED <<versionRows, enabledProbes, outcomes, cancelled, updateVars, ch, rewriteVars, superuserVars>>

\* steps 2 and 3 for one probe: the outcome is recorded, the samples are in the
\* sink, and the orchestrator moves on
Executed(o) ==
    /\ outcomes' = Append(outcomes, o)
    /\ ch' = ch \o o.samples
    /\ lateCalls' = lateCalls \o Late(o.stmts)
    /\ probeIdx' = probeIdx + 1
    /\ scrapePc' = afterProbe(o.err, probeIdx, Len(enabledProbes))
    /\ UNCHANGED <<instanceVars, enabledProbes, cancelled, updateVars, rewriteVars, superuserVars>>

UpdateSynchronizedStandbySlots ==
    /\ scrapePc = "probes"
    /\ enabledProbes[probeIdx] = SynchronizedStandbySlots
    /\ \E c \in InvalidCounts :
          Executed(execute(SynchronizedStandbySlots,
                           PGSynchronizedStandbySlotsCollector_Update(
                               instances[Len(instances)], cancelled, c),
                           c, <<>>))

UpdatePostgresBinaries ==
    /\ scrapePc = "probes"
    /\ enabledProbes[probeIdx] = PostgresBinaries
    /\ \E funcs \in [1..Len(BuildTimestampFuncs) -> FuncStates] :
          Executed(execute(PostgresBinaries,
                           PostgresBinariesCollector_Update(
                               instances[Len(instances)], cancelled, funcs),
                           ScanResult(FALSE, FALSE, 0), funcs))

\* the scrape's context is cancelled (deadline exceeded or caller abort)
Cancel ==
    /\ scrapePc \in {"obtain", "probes"}
    /\ ~cancelled
    /\ cancelled' = TRUE
    /\ UNCHANGED <<instanceVars, scrapePc, enabledProbes, probeIdx, outcomes, lateCalls,
                   updateVars, ch, rewriteVars, superuserVars>>

NextScrape ==
    \/ ObtainInstance
    \/ UpdateSynchronizedStandbySlots
    \/ UpdatePostgresBinaries
    \/ Cancel

SpecScrape == InitScrape /\ [][NextScrape]_vars

----------------------------------------------------------------------------
(* Properties of one scrape *)

\* the factory returned an Instance
InstanceObtained == Len(instances) = 2

\* the concatenation of the samples of the outcomes 1..k
RECURSIVE SamplesUpTo(_)
SamplesUpTo(k) == IF k = 0 THEN <<>> ELSE SamplesUpTo(k - 1) \o outcomes[k].samples

\* C13: when a scrape that obtained its Instance has ended, every enabled probe
\* has been invoked exactly once, in order, also after a probe that returned an
\* error; a probe that returned an error has the outcome success=0 and one that
\* returned nil success=1; and the sink holds the samples of all invoked probes.
C13_ProbeFailureIsIsolated ==
    (scrapePc = "done" /\ InstanceObtained) =>
        /\ Len(outcomes) = Len(enabledProbes)
        /\ \A k \in 1..Len(outcomes) :
              /\ outcomes[k].probe = enabledProbes[k]
              /\ outcomes[k].err # "nil" => outcomes[k].success = 0
              /\ outcomes[k].err = "nil" => outcomes[k].success = 1
        /\ ch = SamplesUpTo(Len(outcomes))

\* C13 witness: the first of two probes returned an error, the second one was
\* invoked after it and its samples are in the sink.
C13_Witness ==
    /\ scrapePc = "done"
    /\ Len(outcomes) = 2
    /\ outcomes[1].err = "error"
    /\ outcomes[1].success = 0
    /\ outcomes[2].err = "nil"
    /\ outcomes[2].samples # <<>>
    /\ ch = outcomes[2].samples

ScrapeVersion == instances[Len(instances)].version

\* C18: an invocation of the standby-slots probe on a server below 17.0.0 sends no
\* sample, issues no statement and returns nil; on a server of 17.0.0 or above
\* whose query succeeds it sends exactly one sample, whose value is the count the
\* query returned, 0 for a NULL.
C18_StandbySlotsVersionGate ==
    \A k \in 1..Len(outcomes) :
        outcomes[k].probe = SynchronizedStandbySlots =>
            /\ VersionLT(ScrapeVersion, <<17, 0, 0>>) =>
                  /\ outcomes[k].samples = <<>>
                  /\ outcomes[k].stmts = <<>>
                  /\ outcomes[k].err = "nil"
            /\ (~VersionLT(ScrapeVersion, <<17, 0, 0>>) /\ outcomes[k].err = "nil") =>
                  /\ Len(outcomes[k].samples) = 1
                  /\ outcomes[k].samples[1].metric = "synchronized_standby_slots_invalid"
                  /\ outcomes[k].samples[1].value =
                        (IF outcomes[k].invalidCount.Valid
                         THEN outcomes[k].invalidCount.Int64 ELSE 0)
                  /\ Len(outcomes[k].stmts) = 1

\* C18 witness: on a server of version 16.4.0 the probe was invoked and sent
\* nothing although a count was there to be read.
C18_Witness ==
    /\ InstanceObtained
    /\ ScrapeVersion = <<16, 4, 0>>
    /\ \E k \in 1..Len(outcomes) :
          /\ outcomes[k].probe = SynchronizedStandbySlots
          /\ outcomes[k].invalidCount = ScanResult(FALSE, TRUE, 2)
          /\ outcomes[k].samples = <<>>
          /\ outcomes[k].err = "nil"

\* the functions that exist in the answers given to invocation k
Existing(k) == {j \in 1..Len(BuildTimestampFuncs) : outcomes[k].funcs[j] = "exists"}

\* the functions whose existence query fails in the answers given to invocation k
ExistsQueryFails(k) ==
    {j \in 1..Len(BuildTimestampFuncs) : outcomes[k].funcs[j] = "exists query fails"}

\* no query of invocation k fails before function j is checked, nor for function j
\* other than its existence query
FirstFailureIsExistsQuery(k, j) ==
    /\ outcomes[k].funcs[j] = "exists query fails"
    /\ \A i \in 1..(j - 1) : outcomes[k].funcs[i] \in {"exists", "missing"}

C20_NoCallOutsideCancellation == lateCalls = <<>>

----------------------------------------------------------------------------
(* The connection descriptor rewriter, modifyDSNDatabase.  Its body is not  *)
(* among the source files; TestModifyDSNDatabase fixes its results on seven *)
(* descriptors, and section 4.1 of the specification describes the rest.   *)
(* Descriptors are strings of bytes.                                        *)

\* the most tokens a key=value descriptor of the model is written from
MaxTokens == 3

\* "postgres://" and "postgresql://"
postgresScheme == <<112, 111, 115, 116, 103, 114, 101, 115, 58, 47, 47>>
postgresqlScheme == <<112, 111, 115, 116, 103, 114, 101, 115, 113, 108, 58, 47, 47>>

\* "dbname="
dbnamePrefix == <<100, 98, 110, 97, 109, 101, 61>>

\* strings.HasPrefix
HasPrefix(s, p) == Len(s) >= Len(p) /\ SubSeq(s, 1, Len(p)) = p

\* the first position from `from` on whose byte is in cs, Len(s) + 1 if none
IndexAny(s, cs, from) ==
    LET I == {i \in from..Len(s) : s[i] \in cs}
    IN IF I = {} THEN Len(s) + 1 ELSE CHOOSE i \in I : \A j \in I : i <= j

\* strings.Fields: the maximal runs of bytes other than the space
RECURSIVE Fields(_)
Fields(s) ==
    LET b == IndexAny(s, {c \in Range(s) : c # 32}, 1)
        e == IndexAny(s, {32}, b)
    IN IF b > Len(s) THEN <<>>
       ELSE <<SubSeq(s, b, e - 1)>> \o Fields(SubSeq(s, e, Len(s)))

\* strings.Join
RECURSIVE Join(_, _)
Join(elems, sep) ==
    IF elems = <<>> THEN <<>>
    ELSE IF Len(elems) = 1 THEN elems[1]
    ELSE elems[1] \o sep \o Join(Tail(elems), sep)

\* the token is a dbname= setting
IsDBNameToken(t) == HasPrefix(t, dbnamePrefix)

\* the descriptor has the URI shape
IsURI(dsn) == HasPrefix(dsn, postgresScheme) \/ HasPrefix(dsn, postgresqlScheme)

\* the URI shape: the authority ends at the first "/" or "?" after the scheme,
\* the query starts at the first "?"; the path between them is replaced
modifyURI_dropQuery(dsn, name) ==
    LET k == IF HasPrefix(dsn, postgresqlScheme) THEN Len(postgresqlScheme)
             ELSE Len(postgresScheme)
        a == IndexAny(dsn, {47, 63}, k + 1)
    IN SubSeq(dsn, 1, a - 1) \o <<47>> \o name

modifyURI(dsn, name) ==
    LET k == IF HasPrefix(dsn, postgresqlScheme) THEN Len(postgresqlScheme)
             ELSE Len(postgresScheme)
        a == IndexAny(dsn, {47, 63}, k + 1)
        q == IndexAny(dsn, {63}, a)
    IN SubSeq(dsn, 1, a - 1) \o <<47>> \o name \o SubSeq(dsn, q, Len(dsn))

\* the key=value shape: the dbname= tokens are dropped and dbname=<dbName> is
\* appended ("host=localhost dbname=olddb port=5432" becomes
\* "host=localhost port=5432 dbname=newdb" in the test)
modifyKeyValue_keepOld(parts, name) ==
    Join(parts \o <<dbnamePrefix \o name>>, <<32>>)

modifyKeyValue_inPlace(parts, name) ==
    IF \E i \in 1..Len(parts) : IsDBNameToken(parts[i])
    THEN Join([i \in 1..Len(parts) |->
                  IF IsDBNameToken(parts[i]) THEN dbnamePrefix \o name ELSE parts[i]],
              <<32>>)
    ELSE Join(parts \o <<dbnamePrefix \o name>>, <<32>>)

modifyKeyValue(parts, name) ==
    Join(SelectSeq(parts, LAMBDA t : ~IsDBNameToken(t)) \o <<dbnamePrefix \o name>>,
         <<32>>)

\* the descriptor is made of key=value tokens: at least one, each with a "="
IsKeyValue_anyToken(parts) == parts # <<>>

IsKeyValue(parts) ==
    parts # <<>> /\ \A i \in 1..Len(parts) : 61 \in Range(parts[i])

modifyDSNDatabase(dsn, name) ==
    IF IsURI(dsn)
    THEN [dsn |-> modifyURI(dsn, name), err |-> "nil"]
    ELSE IF IsKeyValue(Fields(dsn))
    THEN [dsn |-> modifyKeyValue(Fields(dsn), name), err |-> "nil"]
    ELSE [dsn |-> <<>>, err |-> "invalid DSN"]

(* The descriptors the rewriter is applied to *)

\* the database names asked for: "n" and "o"
NewDBNames == {<<110>>, <<111>>}

\* URIs: one of the two schemes; user info "", "u@" or "u:p@"; host and port
\* "h" or "h:5"; path "", "/", "/o" or "/o/o"; query "" or "?s=d"
URIParts ==
    [shape : {"uri"}, scheme : {postgresScheme, postgresqlScheme},
     userinfo : {<<>>, <<117, 64>>, <<117, 58, 112, 64>>},
     hostport : {<<104>>, <<104, 58, 53>>},
     path : {<<>>, <<47>>, <<47, 111>>, <<47, 111, 47, 111>>},
     query : {<<>>, <<63, 115, 61, 100>>},
     tokens : {<<>>}, sep : {<<32>>}]

\* up to MaxTokens tokens among "h=l", "p=5", "dbname=o" and the word "not",
\* which is no key=value token, separated by " " or by "  "
KeyValueParts ==
    [shape : {"tokens"}, scheme : {<<>>}, userinfo : {<<>>}, hostport : {<<>>},
     path : {<<>>}, query : {<<>>},
     tokens : SeqsUpTo({<<104, 61, 108>>, <<112, 61, 53>>, dbnamePrefix \o <<111>>,
                        <<110, 111, 116>>}, MaxTokens),
     sep : {<<32>>, <<32, 32>>}]

\* the descriptor written from its parts
DSNOf(p) ==
    IF p.shape = "uri" THEN p.scheme \o p.userinfo \o p.hostport \o p.path \o p.query
    ELSE Join(p.tokens, p.sep)

(* Specification SpecRewrite: modifyDSNDatabase applied to bounded descriptors *)

InitRewrite ==
    /\ inputParts \in URIParts \cup KeyValueParts
    /\ inputDSN = DSNOf(inputParts)
    /\ newDBName \in NewDBNames
    /\ result = [dsn |-> <<>>, err |-> "unset"]
    /\ NoUpdate
    /\ ch = <<>>
    /\ NoInstances
    /\ NoScrape
    /\ NoSuperusers

CallModifyDSNDatabase ==
    /\ result.err = "unset"
    /\ result' = modifyDSNDatabase(inputDSN, newDBName)
    /\ UNCHANGED <<inputDSN, inputParts, newDBName, updateVars, ch, instanceVars, scrapeVars,
                   superuserVars>>

NextRewrite == CallModifyDSNDatabase

SpecRewrite == InitRewrite /\ [][NextRewrite]_vars

----------------------------------------------------------------------------
(* Properties of the rewriter *)

\* modifyDSNDatabase has returned
Rewritten == result.err # "unset"

\* C21: for a URI-shaped descriptor, with a database segment or without, the
\* result has the scheme, user info, host, port and query string of the input,
\* and its path is the requested database name.
C21_URIPathReplaced ==
    (Rewritten /\ inputParts.shape = "uri") =>
        /\ result.err = "nil"
        /\ result.dsn = inputParts.scheme \o inputParts.userinfo \o inputParts.hostport
                           \o <<47>> \o newDBName \o inputParts.query

C21_Witness ==
    /\ Rewritten
    /\ inputParts.shape = "uri"
    /\ inputParts.path = <<>>
    /\ inputParts.userinfo = <<117, 58, 112, 64>>
    /\ inputParts.query # <<>>
    /\ result.dsn = postgresScheme \o <<117, 58, 112, 64, 104, 58, 53, 47>> \o newDBName
                       \o <<63, 115, 61, 100>>

\* the input is a key=value descriptor: at least one token, each with a "="
KeyValueInput ==
    /\ inputParts.shape = "tokens"
    /\ inputParts.tokens # <<>>
    /\ \A i \in 1..Len(inputParts.tokens) : 61 \in Range(inputParts.tokens[i])

\* the tokens other than the dbname= ones, in order
OtherTokens(ts) == SelectSeq(ts, LAMBDA t : ~IsDBNameToken(t))

\* the dbname= tokens, in order
DBNameTokens(ts) == SelectSeq(ts, IsDBNameToken)

\* the tokens of the descriptor returned
ResultTokens == Fields(result.dsn)

\* C22: for a key=value descriptor, with a dbname= token or without, the result
\* holds exactly one dbname= token, which is dbname=<new>, and every other token
\* of the input as often as the input, unchanged and in the input's order.
C22_ExactlyOneDBNameToken ==
    (Rewritten /\ KeyValueInput) =>
        /\ result.err = "nil"
        /\ DBNameTokens(ResultTokens) = <<dbnamePrefix \o newDBName>>
        /\ OtherTokens(ResultTokens) = OtherTokens(inputParts.tokens)

C22_Witness ==
    /\ Rewritten
    /\ inputParts.tokens = <<dbnamePrefix \o <<111>>, <<104, 61, 108>>,  dbnamePrefix \o <<111>>>>
    /\ newDBName = <<110>>
    /\ result.dsn = <<104, 61, 108, 32>> \o dbnamePrefix \o <<110>>

\* C23 (as claimed): an existing dbname= token is replaced where it stands, so
\* the result has as many tokens as the input and a dbname= token exactly at the
\* positions where the input has one; without one, dbname=<new> is appended.
C23_DBNameReplacedInPlace ==
    (Rewritten /\ KeyValueInput) =>
        LET in == inputParts.tokens
            out == ResultTokens
        IN IF DBNameTokens(in) # <<>>
           THEN /\ Len(out) = Len(in)
                /\ \A i \in 1..Len(in) : IsDBNameToken(in[i]) <=> IsDBNameToken(out[i])
           ELSE out = in \o <<dbnamePrefix \o newDBName>>

\* C23 (amended): an existing dbname= token is removed from where it stands and
\* dbname=<new> is appended as the last token, after the other tokens in their
\* order; without one, dbname=<new> is appended as the last token as well.
C23_DBNameMovedLast ==
    (Rewritten /\ KeyValueInput) =>
        ResultTokens = OtherTokens(inputParts.tokens) \o <<dbnamePrefix \o newDBName>>

\* "h=l dbname=o p=5" becomes "h=l p=5 dbname=n"
C23_Witness ==
    /\ Rewritten
    /\ inputParts.tokens = <<<<104, 61, 108>>, dbnamePrefix \o <<111>>, <<112, 61, 53>>>>
    /\ inputParts.sep = <<32>>
    /\ newDBName = <<110>>
    /\ result.dsn = <<104, 61, 108, 32, 112, 61, 53, 32>> \o dbnamePrefix \o <<110>>

\* C24: a descriptor that is neither URI-shaped nor made of key=value tokens
\* yields an error and no descriptor.
C24_NeitherShapeFails ==
    (Rewritten /\ inputParts.shape = "tokens" /\ ~KeyValueInput) =>
        /\ result.err # "nil"
        /\ result.dsn = <<>>

\* "not not not", as "not a valid dsn" in the test
C24_Witness ==
    /\ Rewritten
    /\ inputParts.tokens = <<<<110, 111, 116>>, <<110, 111, 116>>, <<110, 111, 116>>>>
    /\ result.err = "invalid DSN"

----------------------------------------------------------------------------
(* Specification SpecFactory: the factory of InstanceFactoryFromTemplate is  *)
(* called again and again on one template, and the Instances it returned are *)
(* closed in any order.  instances[1] is the template.                       *)

InitFactory ==
    /\ instances \in {<<NewInstance("dsn", t)>> : t \in Timeouts}
    /\ conns = <<>>
    /\ lastCall = NoCall
    /\ versionRows = <<>>
    /\ NoUpdate
    /\ ch = <<>>
    /\ NoScrape
    /\ NoRewrite
    /\ NoSuperusers

\* one call of the factory: the Instance it returns is number Len(instances) + 1
CallFactory ==
    /\ Len(conns) < MaxConns
    /\ \E o \in SetupOutcomes :
          LET i == Len(instances) + 1
              f == InstanceFactoryFromTemplate(instances[1], i, conns, o[1], o[2], o[3])
          IN /\ instances' = [instances EXCEPT ![1] = f.template] \o f.inst
             /\ conns' = f.setup.conns
             /\ lastCall' = Call("factory", i, f.setup)
    /\ UNCHANGED <<versionRows, updateVars, ch, scrapeVars, rewriteVars, superuserVars>>

\* Close on an Instance the factory returned
CallCloseProduced ==
    /\ \E i \in 2..Len(instances) :
          LET r == Close(instances[i], conns)
          IN /\ instances' = [instances EXCEPT ![i] = r.inst]
             /\ conns' = r.conns
             /\ lastCall' = Call("Close", i, r)
    /\ UNCHANGED <<versionRows, updateVars, ch, scrapeVars, rewriteVars, superuserVars>>

NextFactory ==
    \/ CallFactory
    \/ CallCloseProduced

SpecFactory == InitFactory /\ [][NextFactory]_vars

----------------------------------------------------------------------------
(* Properties of the factory *)

\* the Instances the factory returned
Produced == 2..Len(instances)

\* the template is as NewInstance left it
TemplateUntouched ==
    /\ instances[1].db = NoDB
    /\ instances[1].closeDB = FALSE
    /\ instances[1].version = ZeroVersion

\* Instance k has the template's descriptor and timeout and owns a connection
\* its own setup opened, which no other Instance holds
IndependentCopy(k) ==
    /\ instances[k].dsn = instances[1].dsn
    /\ instances[k].statementTimeout = instances[1].statementTimeout
    /\ instances[k].closeDB
    /\ instances[k].db \in 1..Len(conns)
    /\ conns[instances[k].db].creator = k
    /\ \A j \in Produced : j # k => instances[j].db # instances[k].db

\* a step closes the connection of a returned Instance only as a Close called on
\* that Instance
ClosedOnlyByOwnClose ==
    \A k \in Produced :
        (conns[instances[k].db].open /\ ~conns'[instances[k].db].open)
            => (lastCall'.op = "Close" /\ lastCall'.inst = k)

\* C25: every Instance the factory returns has the template's descriptor and
\* statement timeout and a connection of its own that it owns; no factory call
\* sets or changes the template's connection, ownership flag or version; and the
\* connection of a returned Instance is closed by a Close on that Instance only.
C25_FactoryYieldsIndependentInstances ==
    /\ [](TemplateUntouched /\ \A k \in Produced : IndependentCopy(k))
    /\ [][ClosedOnlyByOwnClose]_vars

\* two Instances were returned, the first was closed and the second is open
C25_Witness ==
    /\ Len(instances) = 3
    /\ lastCall.op = "Close"
    /\ lastCall.inst = 2
    /\ ~conns[instances[2].db].open
    /\ conns[instances[3].db].open
    /\ instances[3].version # ZeroVersion

\* every open connection is the connection of an Instance the factory returned
NoConnectionLeftBehind ==
    \A c \in 1..Len(conns) :
        conns[c].open => \E k \in Produced : instances[k].db = c

\* C29 (as claimed): after a factory call that returned an error, whichever step
\* of setup failed, no connection is open that no returned Instance holds.
C29_FailedSetupClosesConnection ==
    (lastCall.op = "factory" /\ lastCall.err # "nil") => NoConnectionLeftBehind

----------------------------------------------------------------------------
(* Further properties of selectDatabases *)

\* the results of selectDatabases on the inputs of the state, one per outcome of
\* the shuffle
SelectOutcomes ==
    {selectDatabases(eligibleDatabases, includeDatabases, maxDatabases, js) :
        js \in ShuffleChoices(NumOthers(eligibleDatabases, includeDatabases))}

\* the eligible databases the priority list does not name
NonPriorityEligible == Range(eligibleDatabases) \ Range(includeDatabases)

\* C26: with a budget larger than the number of priority databases present in
\* eligible, every non-priority eligible database is in the result of some
\* shuffle outcome, and where eligible has more names than the budget it is also
\* missing from the result of some outcome.
C26_SelectionNotFixed ==
    (maxDatabases > Cardinality(Range(eligibleDatabases) \cap Range(includeDatabases))) =>
        \A db \in NonPriorityEligible :
            /\ \E r \in SelectOutcomes : db \in Range(r)
            /\ Len(eligibleDatabases) > maxDatabases
                  => \E r \in SelectOutcomes : db \notin Range(r)

\* budget 2, priority database 1 and the others 2 and 3: this call returned 3,
\* the database discovered last, and left 2 out
C26_Witness ==
    /\ pc = "ret"
    /\ eligibleDatabases = <<1, 2, 3>>
    /\ includeDatabases = <<1>>
    /\ maxDatabases = 2
    /\ targetDatabases = <<1, 3>>
    /\ <<1, 2>> \in SelectOutcomes

\* C30: with pairwise distinct names in eligible the result holds no name twice,
\* also when the priority list names a database more than once; so the result is
\* never longer than eligible (databases_scanned <= databases_discovered).
C30_NoNameTwice ==
    pc = "ret" =>
        /\ \A i, j \in 1..Len(targetDatabases) :
              i # j => targetDatabases[i] # targetDatabases[j]
        /\ Len(targetDatabases) <= Len(eligibleDatabases)

\* the priority list names database 2 twice
C30_Witness ==
    /\ pc = "ret"
    /\ includeDatabases = <<2, 2>>
    /\ eligibleDatabases = <<1, 2>>
    /\ maxDatabases = 1
    /\ targetDatabases = <<2>>

----------------------------------------------------------------------------
(* The two counts of PGExtensionCollector.Update *)

\* the samples of one metric in the sink, in the order sent
SamplesOfMetric(metric) == SelectSeq(ch, LAMBDA m : m.metric = metric)

\* Update is in its per-database loop, or has returned after a successful
\* discovery
PastSelection ==
    \/ pc \in {"connect", "query", "rows"}
    \/ pc = "done" /\ err = "nil"

\* C27: in an Update of PGExtensionCollector whose discovery query succeeded,
\* databases_discovered is sent once, with the number of databases left after
\* the exclusion, and databases_scanned once, with the number of targets; they are
\* the first two samples, sent before a fan-out connection is opened, whatever
\* fails for a database afterwards; with no eligible database databases_scanned
\* is 0 and no fan-out connection is opened.
C27_CountsEmittedOnceBeforeFanout ==
    collector = Fanout =>
        LET discovered == SamplesOfMetric("databases_discovered")
            scanned == SamplesOfMetric("databases_scanned")
        IN /\ Len(discovered) <= 1
           /\ Len(scanned) <= 1
           /\ PastSelection =>
                 /\ Len(ch) >= 2
                 /\ <<ch[1]>> = discovered
                 /\ <<ch[2]>> = scanned
                 /\ ch[1].value = Cardinality(Range(databases) \ excludedDatabases)
                 /\ ch[2].value = Len(targetDatabases)
           /\ openConns # {} => PastSelection
           /\ eligibleDatabases = <<>> =>
                 /\ openConns = {}
                 /\ pc \notin {"connect", "query", "rows"}
                 /\ scanned # <<>> => scanned[1].value = 0

\* two databases discovered, one selected under a budget of 1, and nothing read
\* from it: the two counts are all the sink holds
C27_Witness ==
    /\ collector = Fanout
    /\ pc = "done"
    /\ err = "nil"
    /\ Len(eligibleDatabases) = 2
    /\ Len(targetDatabases) = 1
    /\ Len(ch) = 2
    /\ ch[1].value = 2
    /\ ch[2].value = 1

----------------------------------------------------------------------------
(* The unexpected-superusers probe, PGUnexpectedSuperusersCollector.Update.  *)
(* The source has it twice: with the label rolname only, and with the labels *)
(* rolname and access_type and a second query for servers from 16.0.0 on.    *)

\* the longest result set of the superusers query in the model
MaxRows == 2

SuperusersByName == "PGUnexpectedSuperusersCollector (rolname)"
SuperusersByAccess == "PGUnexpectedSuperusersCollector (rolname, access_type)"

\* the roles expected to be superusers
expectedSuperusers == {"pscale_admin"}

\* a sql.NullString
NullString(valid, s) == [Valid |-> valid, String |-> s]

\* the rolname column: pscale_admin, another role, or NULL
RoleNames == {NullString(TRUE, "pscale_admin"), NullString(TRUE, "postgres"),
              NullString(FALSE, "")}

\* the rows the query of an Update can return: rolname alone for the first
\* collector; with access_type 'direct' from pgUnexpectedSuperusersQuery, and
\* 'direct' or 'indirect' from pgUnexpectedSuperusersQueryPG16 on a server of
\* 16.0.0 or above.  A NULL access_type is what Scan may still hand over.
SuperuserRowsOf(c, version) ==
    LET accessTypes ==
            IF c = SuperusersByName THEN {NullString(FALSE, "")}
            ELSE IF VersionLT(version, <<16, 0, 0>>)
            THEN {NullString(TRUE, "direct"), NullString(FALSE, "")}
            ELSE {NullString(TRUE, "direct"), NullString(TRUE, "indirect"),
                  NullString(FALSE, "")}
    IN SeqsUpTo([rolname : RoleNames, accessType : accessTypes], MaxRows)

\* pg_unexpected_superusers_role{rolname} 1, or {rolname, access_type} 1
RoleSample(c, rolname, accessTypeLabel) ==
    [metric |-> "unexpected_superusers_role", rolname |-> rolname,
     access_type |-> IF c = SuperusersByName THEN "" ELSE accessTypeLabel, value |-> 1]

\* pg_unexpected_superusers_count
CountSample(n) == [metric |-> "unexpected_superusers_count", value |-> n]

\* mutant: the test of rolname.Valid is left out
isUnexpected_nullIncluded(rolname) == rolname.String \notin expectedSuperusers

\* the row is counted and sent: the name is not NULL and not an expected one
isUnexpected(rolname) == rolname.Valid /\ rolname.String \notin expectedSuperusers

(* Specification SpecSuperusers: one Update of the probe *)

InitSuperusers ==
    /\ collector \in {SuperusersByName, SuperusersByAccess}
    /\ instances \in {<<[NewInstance("dsn", 0) EXCEPT !.version = v]>> :
                         v \in {<<15, 4, 0>>, <<16, 4, 0>>}}
    /\ pc = "query"
    /\ superuserRows = <<>>
    /\ count = 0
    /\ idx = 0
    /\ ch = <<>>
    /\ err = "unset"
    /\ excludedDatabases = {}
    /\ includeDatabases = <<>>
    /\ maxDatabases = 0
    /\ databases = <<>>
    /\ eligibleDatabases = <<>>
    /\ targetDatabases = <<>>
    /\ openConns = {}
    /\ returned = {}
    /\ extensions = MapEmpty
    /\ seen = [n \in ExtNames |-> <<>>]
    /\ conns = <<>>
    /\ lastCall = NoCall
    /\ versionRows = <<>>
    /\ NoScrape
    /\ NoRewrite

\* what no step of this Update changes
SuperusersFrame ==
    UNCHANGED <<collector, excludedDatabases, includeDatabases, maxDatabases, databases,
                eligibleDatabases, targetDatabases, openConns, returned, extensions, seen,
                instanceVars, scrapeVars, rewriteVars>>

\* db.QueryContext(ctx, query): the error is returned, or the rows are there
QuerySuperusers ==
    /\ pc = "query"
    /\ \/ /\ pc' = "done"
          /\ err' = "error"
          /\ UNCHANGED superuserRows
       \/ /\ superuserRows' \in SuperuserRowsOf(collector, instances[1].version)
          /\ pc' = "rows"
          /\ UNCHANGED err
    /\ UNCHANGED <<idx, count, ch>>
    /\ SuperusersFrame

\* one iteration of `for rows.Next()`: Scan fails and Update returns its error,
\* or the row is skipped, or it is counted and its sample is sent
ScanSuperuserRow ==
    /\ pc = "rows"
    /\ idx < Len(superuserRows)
    /\ \/ /\ pc' = "done"
          /\ err' = "error"
          /\ UNCHANGED <<idx, count, ch>>
       \/ LET row == superuserRows[idx + 1]
              accessTypeLabel == IF row.accessType.Valid THEN row.accessType.String
                                 ELSE "direct"
          IN /\ idx' = idx + 1
             /\ IF isUnexpected(row.rolname)
                THEN /\ count' = count + 1
                     /\ ch' = Append(ch, RoleSample(collector, row.rolname.String,
                                                    accessTypeLabel))
                ELSE UNCHANGED <<count, ch>>
             /\ UNCHANGED <<pc, err>>
    /\ UNCHANGED superuserRows
    /\ SuperusersFrame

\* rows.Next() returns false: after the last row with rows.Err() nil the count
\* is sent and Update returns nil; or the iteration broke off, at any row, and
\* rows.Err() is returned
EndOfSuperuserRows ==
    /\ pc = "rows"
    /\ \/ /\ idx = Len(superuserRows)
          /\ ch' = Append(ch, CountSample(count))
          /\ err' = "nil"
       \/ /\ err' = "error"
          /\ UNCHANGED ch
    /\ pc' = "done"
    /\ UNCHANGED <<idx, count, superuserRows>>
    /\ SuperusersFrame

NextSuperusers ==
    \/ QuerySuperusers
    \/ ScanSuperuserRow
    \/ EndOfSuperuserRows

SpecSuperusers == InitSuperusers /\ [][NextSuperusers]_vars

----------------------------------------------------------------------------
(* Properties of the unexpected-superusers probe *)

\* the names of the rows read so far that are neither NULL nor expected
RECURSIVE UnexpectedNamesUpTo(_)
UnexpectedNamesUpTo(k) ==
    IF k = 0 THEN <<>>
    ELSE LET r == superuserRows[k].rolname
         IN IF r.Valid /\ r.String # "pscale_admin"
            THEN Append(UnexpectedNamesUpTo(k - 1), r.String)
            ELSE UnexpectedNamesUpTo(k - 1)

\* C28: the count sample is sent at most once, as the last sample, only by an
\* Update that read every row and returned nil, and its value is the number of
\* role samples sent; the role samples are those of the rows read whose name is
\* neither NULL nor pscale_admin, so such rows are neither sent nor counted.
C28_CountMatchesRoleSamples ==
    collector \in {SuperusersByName, SuperusersByAccess} =>
        LET roles == SamplesOfMetric("unexpected_superusers_role")
            counts == SamplesOfMetric("unexpected_superusers_count")
        IN /\ Len(counts) <= 1
           /\ counts # <<>> =>
                 /\ pc = "done"
                 /\ err = "nil"
                 /\ idx = Len(superuserRows)
                 /\ ch[Len(ch)].metric = "unexpected_superusers_count"
                 /\ counts[1].value = Len(roles)
           /\ [k \in 1..Len(roles) |-> roles[k].rolname] = UnexpectedNamesUpTo(idx)
           /\ count = Len(roles)

\* a NULL name and then a second superuser: one role sample, count 1
C28_Witness ==
    /\ pc = "done"
    /\ err = "nil"
    /\ Len(superuserRows) = 2
    /\ ~superuserRows[1].rolname.Valid
    /\ superuserRows[2].rolname.String = "postgres"
    /\ Len(ch) = 2
    /\ ch[1].metric = "unexpected_superusers_role"
    /\ ch[2].metric = "unexpected_superusers_count"
    /\ ch[2].value = 1

====
